---- MODULE Spec2Model ----
(***************************************************************************)
(* Live status channel of the brewctl frontend: the useBrewPolling hook    *)
(* (WebSocket transport with reconnect timer and rolling history buffers). *)
(* Every handler of the hook is one action; the WebSocket objects the hook *)
(* created and the timers it scheduled are part of the state, because      *)
(* their callbacks stay registered after the hook drops its reference.     *)
(***************************************************************************)
EXTENDS Integers, Sequences, FiniteSets, TLC

\* ------------------------------------------------------------------ bounds
\* WebSocket objects the hook may create in one behaviour of Spec.
MaxSockets == 3
\* Messages delivered in one behaviour of Spec.
MaxMsgs == 2
\* WebSocket objects / messages in one behaviour of SpecHist.
MaxSocketsHist == 2
MaxSocketsMsg == 1
MaxSocketsBackoff == 8
\* the counter values the delay is computed for
MaxAttempts == 20
MaxSocketsCtl == 2
MaxSources == 4
MaxSocketsEq == 3
MaxSourcesEq == 3
MaxMsgsEq == 2
MaxMsgsMsg == 2
MaxMsgsHist == 130
\* sockets / messages in one behaviour of SpecOrder
MaxSocketsOrder == 2
MaxMsgsOrder == 3
\* In SpecHist every message may be "brewing"; every HistPeriod-th may also be
\* "paused" or "idle".
HistPeriod == 64

\* ------------------------------------------------------- program constants
RECONNECT_DELAY_MS == 1000
MAX_RECONNECT_DELAY_MS == 30000
MAX_HISTORY_POINTS == 128

\* ------------------------------------------------------------ JS values
JNull == [t |-> "null"]
JUndef == [t |-> "undefined"]
JNaN == [t |-> "NaN"]
JStr(s) == [t |-> "string", v |-> s]
\* numbers are kept in thousandths (0.05 is 50)
JNum(n) == [t |-> "number", v |-> n]
JArr(s) == [t |-> "array", v |-> s]

\* data.f : a property read; undefined on a missing property or a primitive
Field(data, f) ==
    IF data.t = "object" /\ f \in DOMAIN data THEN data[f] ELSE JUndef

\* data.f = v on an object
SetField(o, f, v) == [x \in DOMAIN o \cup {f} |-> IF x = f THEN v ELSE o[x]]

\* JS truthiness, as used by `x ? a : b` and `x || y`
Truthy(v) ==
    CASE v.t \in {"null", "undefined", "NaN"} -> FALSE
      [] v.t = "string" -> v.v # ""
      [] v.t = "number" -> v.v # 0
      [] v.t = "boolean" -> v.v
      [] OTHER -> TRUE

\* parseFloat on the wire strings the model sends
parseFloat(v) ==
    CASE v.t = "number" -> v
      [] v = JStr("0") -> JNum(0)
      [] v = JStr("0.05") -> JNum(50)
      [] v = JStr("1.5") -> JNum(1500)
      [] v = JStr("12.5") -> JNum(12500)
      [] v = JStr("250") -> JNum(250000)
      [] OTHER -> JNaN

\* mutant: the kept samples come newest first
SliceLast_NewestFirst(s, n) ==
    LET kept == IF Len(s) <= n THEN s ELSE SubSeq(s, Len(s) - n + 1, Len(s))
    IN  [i \in 1..Len(kept) |-> kept[Len(kept) + 1 - i]]

\* mutant: the cap is forgotten
SliceLast_NoCap(s, n) == s

\* mutant: slice(0, n), which keeps the oldest n
SliceLast_KeepsOldest(s, n) ==
    IF Len(s) <= n THEN s ELSE SubSeq(s, 1, n)

\* [...].slice(-n)
SliceLast(s, n) ==
    IF Len(s) <= n THEN s ELSE SubSeq(s, Len(s) - n + 1, Len(s))

\* a wire payload (event.data): text that is JSON of a value, or not JSON
Text(val) == [json |-> TRUE, value |-> val]
Garbage == [json |-> FALSE]

\* a snapshot object as the backend sends it
Obj(bs, fr, wt, em) ==
    [t |-> "object", brew_state |-> JStr(bs), current_flow_rate |-> fr,
     current_weight |-> wt, error_message |-> em]

\* ---------------------------------------------------------------- strings
\* a string is the sequence of its characters
Http == <<"h", "t", "t", "p", ":", "/", "/">>
Https == <<"h", "t", "t", "p", "s", ":", "/", "/">>
Ws == <<"w", "s", ":", "/", "/">>
Wss == <<"w", "s", "s", ":", "/", "/">>
Api == <<"/", "a", "p", "i">>
V1 == <<"/", "v", "1">>
Localhost == <<"l", "o", "c", "a", "l", "h", "o", "s", "t", ":", "8", "0", "0", "0">>
ApiHost == <<"a", "p", "i", ".", "e", "x", ".", "c", "o", "m">>
BrewHost == <<"b", "r", "e", "w", ".", "l", "a", "n">>
HttpHost == <<"h", "t", "t", "p", ".", "l", "a", "n">>

\* the places where pattern occurs in s
Occurrences(s, pattern) ==
    {i \in 1..(Len(s) - Len(pattern) + 1) : SubSeq(s, i, i + Len(pattern) - 1) = pattern}

\* String.prototype.replace with a string pattern: the first occurrence
replace(s, pattern, replacement) ==
    IF Occurrences(s, pattern) = {}
    THEN s
    ELSE LET i == CHOOSE j \in Occurrences(s, pattern) :
                      \A k \in Occurrences(s, pattern) : j <= k
         IN  SubSeq(s, 1, i - 1) \o replacement \o SubSeq(s, i + Len(pattern), Len(s))

\* import.meta.env.COLDBREW_FRONTEND_API_URL || "http://localhost:8000/api"
DefaultApiUrl == Http \o Localhost \o Api
getApiUrl(env) == IF env = <<>> THEN DefaultApiUrl ELSE env

\* ------------------------------------------------------------------ state
VARIABLES
    brewInProgress,        \* useState: the held snapshot, JNull when absent
    brewError,             \* useState: the error state, JNull when absent
    wsRef,                 \* wsRef.current: 0 (null) or the id of a socket
    reconnectTimeoutRef,   \* reconnectTimeoutRef.current: 0 (null) or a timer id
    reconnectAttempts,     \* reconnectAttempts.current
    flowRateHistoryRef,    \* flowRateHistoryRef.current
    weightHistoryRef,      \* weightHistoryRef.current
    sockets,               \* readyState of every WebSocket the hook created
    timers,                \* pending window.setTimeout timers: [id, delay]
    timerSeq,              \* timers created so far (ids are 1, 2, ...)
    now,                   \* the clock read by Date.now()
    delivered,             \* messages delivered so far
    last,                  \* history: the handler that ran last, and the
                           \*   readyState of the held socket when it started
    stopRun,               \* history: consecutive stopPolling() calls, up to 2
    stopped,               \* history: stop was called, no start/fetch since
    stoppedIdle,           \* history: ... and stop found a timer and no live socket
    activeLog,             \* history: samples appended since the buffers were empty
    logging,               \* whether the four logs below are recorded (set by Init)
    msgLog,                \* log: the payloads delivered, in delivery order
    pubLog,                \* log: the values passed to setBrewInProgress by onmessage
    delayLog,              \* log: the delays scheduled since the counter was last reset
    preOpen,               \* log: the counter value the last open event found, -1 if none
    sampleSockets,         \* log: the sockets that delivered the samples of activeLog
    heap,                  \* log: the array objects the message handler created, the two
                           \*   the refs hold, and the two of each published active snapshot
    ctl,                   \* the last control request: function, response, outcome
    url,                   \* the configured API URL and what wsUrl() returned for it
    connectionStatus,      \* useConnectionStatus: the health snapshot, JNull when absent
    connectionState,       \* useConnectionStatus: connected, reconnecting, disconnected
    eventSourceRef,        \* useConnectionStatus: 0 (null) or the id of an EventSource
    eventSources,          \* readyState of every EventSource useConnectionStatus created
    healthLast,            \* history: the health handler that ran last, what it found
    status_brewInProgress,        \* useBrewStatus: the held snapshot, JNull when absent
    status_brewError,             \* useBrewStatus: the error state, JNull when absent
    status_eventSourceRef,        \* useBrewStatus: 0 (null) or the id of an EventSource
    status_flowRateHistoryRef,    \* useBrewStatus: flowRateHistoryRef.current
    status_weightHistoryRef,      \* useBrewStatus: weightHistoryRef.current
    status_sources                \* readyState of every EventSource useBrewStatus created

payload == <<brewInProgress, brewError, flowRateHistoryRef, weightHistoryRef>>
conn == <<wsRef, reconnectTimeoutRef, reconnectAttempts, sockets, timers, timerSeq>>
prog == <<payload, conn>>
hist == <<last, stopRun, stopped, stoppedIdle, activeLog>>
logs == <<logging, msgLog, pubLog, delayLog, preOpen, sampleSockets, heap>>
chan == <<prog, now, delivered, hist, logs>>
health == <<connectionStatus, connectionState, eventSourceRef, eventSources, healthLast>>
status_payload == <<status_brewInProgress, status_brewError,
                    status_flowRateHistoryRef, status_weightHistoryRef>>
brewStatus == <<status_payload, status_eventSourceRef, status_sources>>
vars == <<chan, ctl, url, health, brewStatus>>

Live(w) == sockets[w] \in {"CONNECTING", "OPEN"}
LiveSockets == {w \in 1..Len(sockets) : Live(w)}
TimerIds == {t.id : t \in timers}

\* the hook as constructed: nothing held, nothing created
Boot ==
    /\ brewInProgress = JNull
    /\ brewError = JNull
    /\ wsRef = 0
    /\ reconnectTimeoutRef = 0
    /\ reconnectAttempts = 0
    /\ flowRateHistoryRef = <<>>
    /\ weightHistoryRef = <<>>
    /\ sockets = <<>>
    /\ timers = {}
    /\ timerSeq = 0
    /\ now = 0
    /\ delivered = 0
    /\ last = [op |-> "init", held |-> "none"]
    /\ stopRun = 0
    /\ stopped = FALSE
    /\ stoppedIdle = FALSE
    /\ activeLog = <<>>
    /\ sampleSockets = {}
    /\ heap = [arrays |-> << <<>>, <<>> >>, flowRef |-> 1, weightRef |-> 2, published |-> <<>>]
    /\ msgLog = <<>>
    /\ pubLog = <<>>
    /\ delayLog = <<>>
    /\ preOpen = -1
    /\ ctl = [fn |-> "none"]
    /\ connectionStatus = JNull
    /\ connectionState = "disconnected"
    /\ eventSourceRef = 0
    /\ eventSources = <<>>
    /\ healthLast = [op |-> "init", was |-> "none", from |-> "disconnected", stopped |-> FALSE]
    /\ status_brewInProgress = JNull
    /\ status_brewError = JNull
    /\ status_eventSourceRef = 0
    /\ status_flowRateHistoryRef = <<>>
    /\ status_weightHistoryRef = <<>>
    /\ status_sources = <<>>

\* no API URL is configured, wsUrl() has not been called
NoUrl == [env |-> <<>>, called |-> FALSE, ws |-> <<>>]

Init == Boot /\ logging = FALSE /\ url = NoUrl

\* the same state with the logs recorded
InitLogged == Boot /\ logging = TRUE /\ url = NoUrl

\* ws.close(): a connecting or open socket starts closing; its close event
\* is dispatched later, with the handlers still attached
CloseSocket(socks, w) ==
    IF socks[w] \in {"CONNECTING", "OPEN"} THEN [socks EXCEPT ![w] = "CLOSING"] ELSE socks

\* mutant: connect() without the close of the held socket
connect_NoClose(maxSock) ==
    /\ Len(sockets) < maxSock
    /\ sockets' = Append(sockets, "CONNECTING")
    /\ wsRef' = Len(sockets) + 1

\* connect(): closes the held socket, creates a new one and holds it
connect(maxSock) ==
    /\ Len(sockets) < maxSock
    /\ LET closed == IF wsRef # 0 THEN CloseSocket(sockets, wsRef) ELSE sockets
       IN  sockets' = Append(closed, "CONNECTING")
    /\ wsRef' = Len(sockets) + 1

\* mutant: disconnect() counts an attempt, as onclose does, instead of
\* resetting the counter
disconnect_CountsAttempt ==
    /\ IF reconnectTimeoutRef # 0
       THEN /\ timers' = {t \in timers : t.id # reconnectTimeoutRef}
            /\ reconnectTimeoutRef' = 0
       ELSE UNCHANGED <<timers, reconnectTimeoutRef>>
    /\ IF wsRef # 0
       THEN /\ sockets' = CloseSocket(sockets, wsRef)
            /\ wsRef' = 0
       ELSE UNCHANGED <<sockets, wsRef>>
    /\ reconnectAttempts' = reconnectAttempts + 1

\* mutant: disconnect() without the reset of the counter
disconnect_KeepsCounter ==
    /\ IF reconnectTimeoutRef # 0
       THEN /\ timers' = {t \in timers : t.id # reconnectTimeoutRef}
            /\ reconnectTimeoutRef' = 0
       ELSE UNCHANGED <<timers, reconnectTimeoutRef>>
    /\ IF wsRef # 0
       THEN /\ sockets' = CloseSocket(sockets, wsRef)
            /\ wsRef' = 0
       ELSE UNCHANGED <<sockets, wsRef>>
    /\ UNCHANGED reconnectAttempts

\* disconnect()
disconnect ==
    /\ IF reconnectTimeoutRef # 0
       THEN /\ timers' = {t \in timers : t.id # reconnectTimeoutRef}
            /\ reconnectTimeoutRef' = 0
       ELSE UNCHANGED <<timers, reconnectTimeoutRef>>
    /\ IF wsRef # 0
       THEN /\ sockets' = CloseSocket(sockets, wsRef)
            /\ wsRef' = 0
       ELSE UNCHANGED <<sockets, wsRef>>
    /\ reconnectAttempts' = 0

\* readyState of the held socket
Held == IF wsRef = 0 THEN "none" ELSE sockets[wsRef]

\* history bookkeeping shared by the handlers; rec is what last becomes
NoteAs(op, rec) ==
    /\ last' = rec
    /\ stopRun' = IF op = "stopPolling" THEN (IF stopRun < 2 THEN stopRun + 1 ELSE 2) ELSE 0
    /\ stopped' = CASE op = "stopPolling" -> TRUE
                    [] op \in {"startPolling", "fetchBrewInProgress"} -> FALSE
                    [] OTHER -> stopped
    /\ stoppedIdle' = CASE op = "stopPolling" ->
                             (stoppedIdle \/ (timers # {} /\ LiveSockets = {}
                                 /\ \A w \in 1..Len(sockets) : sockets[w] = "CLOSED"))
                        [] op \in {"startPolling", "fetchBrewInProgress"} -> FALSE
                        [] OTHER -> stoppedIdle
    /\ UNCHANGED <<logging, url, health>>
    /\ IF op = "fetchBrewInProgress" THEN TRUE ELSE UNCHANGED ctl
    /\ IF op = "onmessage" THEN TRUE ELSE UNCHANGED <<msgLog, pubLog, sampleSockets, heap>>
    /\ IF op \in {"onopen", "onclose", "stopPolling"}
       THEN TRUE
       ELSE UNCHANGED <<delayLog, preOpen>>

Note(op) == NoteAs(op, [op |-> op, held |-> Held])

\* a log grows only where recording is on
Logged(log, entry) == IF logging THEN Append(log, entry) ELSE log

startPolling(maxSock) ==
    /\ connect(maxSock)
    /\ UNCHANGED <<payload, reconnectTimeoutRef, reconnectAttempts, timers, timerSeq>>
    /\ UNCHANGED <<now, delivered, activeLog>>
    /\ Note("startPolling")

\* mutant: stopPolling() without setBrewError(null)
stopPolling_KeepsError ==
    /\ disconnect
    /\ brewInProgress' = JNull
    /\ UNCHANGED <<brewError, flowRateHistoryRef, weightHistoryRef, timerSeq>>
    /\ UNCHANGED <<now, delivered, activeLog>>
    /\ delayLog' = <<>>
    /\ UNCHANGED preOpen
    /\ NoteAs("stopPolling", [op |-> "stopPolling", held |-> Held,
                               counted |-> reconnectAttempts > 0])

stopPolling ==
    /\ disconnect
    /\ brewInProgress' = JNull
    /\ brewError' = JNull
    /\ UNCHANGED <<flowRateHistoryRef, weightHistoryRef, timerSeq>>
    /\ UNCHANGED <<now, delivered, activeLog>>
    /\ delayLog' = <<>>
    /\ UNCHANGED preOpen
    /\ NoteAs("stopPolling", [op |-> "stopPolling", held |-> Held,
                               counted |-> reconnectAttempts > 0])

\* mutant: fetchBrewInProgress() without the readyState test
fetchBrewInProgress_Always(maxSock) ==
    /\ connect(maxSock)
    /\ UNCHANGED <<payload, reconnectTimeoutRef, reconnectAttempts, timers, timerSeq>>
    /\ UNCHANGED <<now, delivered, activeLog>>
    /\ Note("fetchBrewInProgress")

fetchBrewInProgress(maxSock) ==
    /\ IF wsRef = 0 \/ sockets[wsRef] # "OPEN"
       THEN connect(maxSock)
       ELSE UNCHANGED <<sockets, wsRef>>
    /\ UNCHANGED <<payload, reconnectTimeoutRef, reconnectAttempts, timers, timerSeq>>
    /\ UNCHANGED <<now, delivered, activeLog>>
    /\ Note("fetchBrewInProgress")

\* mutant: ws.onopen without the reset of the counter
ws_onopen_NoReset(w) ==
    /\ sockets[w] = "CONNECTING"
    /\ sockets' = [sockets EXCEPT ![w] = "OPEN"]
    /\ UNCHANGED <<payload, wsRef, reconnectTimeoutRef, reconnectAttempts, timers, timerSeq>>
    /\ UNCHANGED <<now, delivered, activeLog>>
    /\ delayLog' = <<>>
    /\ preOpen' = IF logging THEN reconnectAttempts ELSE preOpen
    /\ Note("onopen")

\* ws.onopen
ws_onopen(w) ==
    /\ sockets[w] = "CONNECTING"
    /\ sockets' = [sockets EXCEPT ![w] = "OPEN"]
    /\ reconnectAttempts' = 0
    /\ UNCHANGED <<payload, wsRef, reconnectTimeoutRef, timers, timerSeq>>
    /\ UNCHANGED <<now, delivered, activeLog>>
    /\ delayLog' = <<>>
    /\ preOpen' = IF logging THEN reconnectAttempts ELSE preOpen
    /\ Note("onopen")

\* data.brew_state === "brewing" || data.brew_state === "paused"
IsActive(bs) == bs = JStr("brewing") \/ bs = JStr("paused")

\* mutant: a completed brew is not taken as the end of the brew
IsEnded_NotCompleted(bs) == bs = JStr("idle") \/ bs = JStr("error")

\* data.brew_state === "completed" || ... === "idle" || ... === "error"
IsEnded(bs) == bs = JStr("completed") \/ bs = JStr("idle") \/ bs = JStr("error")

\* mutant: parseFloat(v) || null, which turns a zero into null
ParseMetric_ZeroIsNull(v) ==
    IF Truthy(v) /\ Truthy(parseFloat(v)) THEN parseFloat(v) ELSE JNull

\* v ? parseFloat(v) : null
ParseMetric(v) == IF Truthy(v) THEN parseFloat(v) ELSE JNull

\* mutant: a weight sample is stored only where a weight was read
HandleData_SkipsNullWeight(data) ==
    LET bs == Field(data, "brew_state")
        isActive == IsActive(bs)
        timestamp == now'
        fr == Field(data, "current_flow_rate")
        wt == Field(data, "current_weight")
        flowRate == ParseMetric(fr)
        weight == ParseMetric(wt)
        newFlowPoint == [timestamp |-> timestamp, flowRate |-> flowRate, weight |-> JNull]
        newWeightPoint == [timestamp |-> timestamp, flowRate |-> JNull, weight |-> weight]
        newFlow == SliceLast(Append(flowRateHistoryRef, newFlowPoint), MAX_HISTORY_POINTS)
        newWeight == IF weight = JNull
                     THEN weightHistoryRef
                     ELSE SliceLast(Append(weightHistoryRef, newWeightPoint), MAX_HISTORY_POINTS)
    IN  /\ IF isActive
           THEN /\ flowRateHistoryRef' = newFlow
                /\ weightHistoryRef' = newWeight
                /\ brewInProgress' =
                       SetField(SetField(data, "flow_rate_history", JArr(newFlow)),
                                "weight_history", JArr(newWeight))
                /\ activeLog' = Append(activeLog, [flow |-> newFlowPoint, weight |-> newWeightPoint])
           ELSE /\ IF IsEnded(bs)
                   THEN /\ flowRateHistoryRef' = <<>>
                        /\ weightHistoryRef' = <<>>
                        /\ activeLog' = <<>>
                   ELSE UNCHANGED <<flowRateHistoryRef, weightHistoryRef, activeLog>>
                /\ brewInProgress' = data
        /\ IF bs = JStr("error")
           THEN brewError' =
                    [t |-> "object",
                     error |-> IF Truthy(Field(data, "error_message"))
                               THEN Field(data, "error_message")
                               ELSE JStr("An error occurred"),
                     timestamp |-> now']
           ELSE brewError' = JNull
        /\ pubLog' = Logged(pubLog, brewInProgress')

\* the body of ws.onmessage's try block, after JSON.parse returned data
HandleData(data) ==
    LET bs == Field(data, "brew_state")
        isActive == IsActive(bs)
        timestamp == now'
        fr == Field(data, "current_flow_rate")
        wt == Field(data, "current_weight")
        flowRate == ParseMetric(fr)
        weight == ParseMetric(wt)
        newFlowPoint == [timestamp |-> timestamp, flowRate |-> flowRate, weight |-> JNull]
        newWeightPoint == [timestamp |-> timestamp, flowRate |-> JNull, weight |-> weight]
        newFlow == SliceLast(Append(flowRateHistoryRef, newFlowPoint), MAX_HISTORY_POINTS)
        newWeight == SliceLast(Append(weightHistoryRef, newWeightPoint), MAX_HISTORY_POINTS)
    IN  /\ IF isActive
           THEN /\ flowRateHistoryRef' = newFlow
                /\ weightHistoryRef' = newWeight
                /\ brewInProgress' =
                       SetField(SetField(data, "flow_rate_history", JArr(newFlow)),
                                "weight_history", JArr(newWeight))
                /\ activeLog' = Append(activeLog, [flow |-> newFlowPoint, weight |-> newWeightPoint])
           ELSE /\ IF IsEnded(bs)
                   THEN /\ flowRateHistoryRef' = <<>>
                        /\ weightHistoryRef' = <<>>
                        /\ activeLog' = <<>>
                   ELSE UNCHANGED <<flowRateHistoryRef, weightHistoryRef, activeLog>>
                /\ brewInProgress' = data
        /\ IF bs = JStr("error")
           THEN brewError' =
                    [t |-> "object",
                     error |-> IF Truthy(Field(data, "error_message"))
                               THEN Field(data, "error_message")
                               ELSE JStr("An error occurred"),
                     timestamp |-> now']
           ELSE brewError' = JNull
        /\ pubLog' = Logged(pubLog, brewInProgress')

\* mutant: the point is pushed onto the array the ref holds, and that array
\* itself is put into the published snapshot
HeapHandled_SharesBuffer(h, data, timestamp) ==
    LET bs == Field(data, "brew_state")
        flowRate == ParseMetric(Field(data, "current_flow_rate"))
        weight == ParseMetric(Field(data, "current_weight"))
        newFlowPoint == [timestamp |-> timestamp, flowRate |-> flowRate, weight |-> JNull]
        newWeightPoint == [timestamp |-> timestamp, flowRate |-> JNull, weight |-> weight]
        a == h.arrays
        n == Len(a)
    IN  IF IsActive(bs)
        THEN LET pushed == [a EXCEPT ![h.flowRef] = Append(@, newFlowPoint),
                                     ![h.weightRef] = Append(@, newWeightPoint)]
             IN  [h EXCEPT !.arrays = pushed,
                           !.published = Append(@, [flow |-> h.flowRef, weight |-> h.weightRef,
                                                    flowAt |-> pushed[h.flowRef],
                                                    weightAt |-> pushed[h.weightRef]])]
        ELSE IF IsEnded(bs)
             THEN [h EXCEPT !.arrays = a \o << <<>>, <<>> >>, !.flowRef = n + 1, !.weightRef = n + 2]
             ELSE h

\* the array objects of the try block of ws.onmessage: [...ref, point] and
\* .slice(-N) each create an array, the ref is set to the sliced one, and
\* [...ref] creates the one put into data; an ended brew sets each ref to a
\* new empty array; no array is written after its creation
HeapHandled(h, data, timestamp) ==
    LET bs == Field(data, "brew_state")
        flowRate == ParseMetric(Field(data, "current_flow_rate"))
        weight == ParseMetric(Field(data, "current_weight"))
        newFlowPoint == [timestamp |-> timestamp, flowRate |-> flowRate, weight |-> JNull]
        newWeightPoint == [timestamp |-> timestamp, flowRate |-> JNull, weight |-> weight]
        a == h.arrays
        n == Len(a)
    IN  IF IsActive(bs)
        THEN LET flowSpread == Append(a[h.flowRef], newFlowPoint)
                 flowSliced == SliceLast(flowSpread, MAX_HISTORY_POINTS)
                 weightSpread == Append(a[h.weightRef], newWeightPoint)
                 weightSliced == SliceLast(weightSpread, MAX_HISTORY_POINTS)
             IN  [arrays |-> a \o <<flowSpread, flowSliced, weightSpread, weightSliced,
                                    flowSliced, weightSliced>>,
                  flowRef |-> n + 2,
                  weightRef |-> n + 4,
                  published |-> Append(h.published,
                                       [flow |-> n + 5, weight |-> n + 6,
                                        flowAt |-> flowSliced, weightAt |-> weightSliced])]
        ELSE IF IsEnded(bs)
             THEN [h EXCEPT !.arrays = a \o << <<>>, <<>> >>, !.flowRef = n + 1, !.weightRef = n + 2]
             ELSE h

\* the bookkeeping of a message event of socket w with payload p
NoteMessage(w, p) ==
    /\ heap' = IF logging /\ p.json /\ p.value.t # "null"
               THEN HeapHandled(heap, p.value, now')
               ELSE heap
    /\ NoteAs("onmessage", [op |-> "onmessage", held |-> Held, msg |-> p])
    /\ sampleSockets' = CASE ~logging \/ activeLog' = <<>> -> {}
                           [] Len(activeLog') > Len(activeLog) -> sampleSockets \cup {w}
                           [] OTHER -> sampleSockets

\* mutant: the catch block drops the held snapshot
ws_onmessage_CatchResets(w, p, adv, maxMsgs) ==
    /\ sockets[w] = "OPEN"
    /\ delivered < maxMsgs
    /\ delivered' = delivered + 1
    /\ now' = now + adv
    /\ IF ~p.json \/ p.value.t = "null"
       THEN /\ brewInProgress' = JNull
            /\ UNCHANGED <<brewError, flowRateHistoryRef, weightHistoryRef>>
            /\ UNCHANGED <<activeLog, pubLog>>
       ELSE HandleData(p.value)
    /\ UNCHANGED conn
    /\ msgLog' = Logged(msgLog, p)
    /\ NoteMessage(w, p)

\* ws.onmessage: a message event of an open socket; adv is the time that
\* passed since the previous delivery
ws_onmessage(w, p, adv, maxMsgs) ==
    /\ sockets[w] = "OPEN"
    /\ delivered < maxMsgs
    /\ delivered' = delivered + 1
    /\ now' = now + adv
    /\ IF ~p.json \/ p.value.t = "null"
       THEN UNCHANGED <<payload, activeLog, pubLog>>      \* the catch block
       ELSE HandleData(p.value)
    /\ UNCHANGED conn
    /\ msgLog' = Logged(msgLog, p)
    /\ NoteMessage(w, p)

\* mutant: ws.onerror publishes an error state
ws_onerror_SetsError(w) ==
    /\ sockets[w] \in {"CONNECTING", "OPEN", "CLOSING"}
    /\ brewError' = [t |-> "object", error |-> JStr("An error occurred"), timestamp |-> now]
    /\ UNCHANGED <<brewInProgress, flowRateHistoryRef, weightHistoryRef>>
    /\ UNCHANGED <<conn, now, delivered, activeLog>>
    /\ Note("onerror")

\* ws.onerror
ws_onerror(w) ==
    /\ sockets[w] \in {"CONNECTING", "OPEN", "CLOSING"}
    /\ UNCHANGED <<prog, now, delivered, activeLog>>
    /\ Note("onerror")

\* mutant: the delay is computed from the counter after its increment
Delay_AfterIncrement(attempts) ==
    IF RECONNECT_DELAY_MS * (2 ^ (attempts + 1)) < MAX_RECONNECT_DELAY_MS
    THEN RECONNECT_DELAY_MS * (2 ^ (attempts + 1))
    ELSE MAX_RECONNECT_DELAY_MS

\* mutant: the delay without Math.min, doubling without a cap
Delay_NoCap(attempts) == RECONNECT_DELAY_MS * (2 ^ attempts)

\* Math.min(RECONNECT_DELAY_MS * Math.pow(2, attempts), MAX_RECONNECT_DELAY_MS)
Delay(attempts) ==
    IF RECONNECT_DELAY_MS * (2 ^ attempts) < MAX_RECONNECT_DELAY_MS
    THEN RECONNECT_DELAY_MS * (2 ^ attempts)
    ELSE MAX_RECONNECT_DELAY_MS

\* mutant: after five failed attempts no reconnect is scheduled
ws_onclose_GivesUp(w) ==
    /\ sockets[w] \in {"CONNECTING", "OPEN", "CLOSING"}
    /\ sockets' = [sockets EXCEPT ![w] = "CLOSED"]
    /\ wsRef' = 0
    /\ reconnectAttempts' = reconnectAttempts + 1
    /\ IF reconnectAttempts < 5
       THEN /\ timerSeq' = timerSeq + 1
            /\ reconnectTimeoutRef' = timerSeq + 1
            /\ timers' = timers \cup {[id |-> timerSeq + 1, delay |-> Delay(reconnectAttempts)]}
            /\ delayLog' = Logged(delayLog, Delay(reconnectAttempts))
       ELSE UNCHANGED <<timerSeq, reconnectTimeoutRef, timers, delayLog>>
    /\ UNCHANGED <<payload, now, delivered, activeLog>>
    /\ UNCHANGED preOpen
    /\ Note("onclose")

\* ws.onclose: the close event of socket w, whoever closed it
ws_onclose(w) ==
    /\ sockets[w] \in {"CONNECTING", "OPEN", "CLOSING"}
    /\ sockets' = [sockets EXCEPT ![w] = "CLOSED"]
    /\ wsRef' = 0
    /\ reconnectAttempts' = reconnectAttempts + 1
    /\ timerSeq' = timerSeq + 1
    /\ reconnectTimeoutRef' = timerSeq + 1
    /\ timers' = timers \cup {[id |-> timerSeq + 1, delay |-> Delay(reconnectAttempts)]}
    /\ UNCHANGED <<payload, now, delivered, activeLog>>
    /\ delayLog' = Logged(delayLog, Delay(reconnectAttempts))
    /\ UNCHANGED preOpen
    /\ Note("onclose")

\* the server starts the closing handshake: readyState becomes CLOSING, no
\* handler runs until the close event
ServerClosing(w) ==
    /\ sockets[w] = "OPEN"
    /\ sockets' = [sockets EXCEPT ![w] = "CLOSING"]
    /\ UNCHANGED <<payload, wsRef, reconnectTimeoutRef, reconnectAttempts, timers, timerSeq>>
    /\ UNCHANGED <<now, delivered, activeLog>>
    /\ Note("closing")

\* the setTimeout callback of ws.onclose
timerCallback(t, maxSock) ==
    /\ t \in timers
    /\ timers' = timers \ {t}
    /\ connect(maxSock)
    /\ UNCHANGED <<payload, reconnectTimeoutRef, reconnectAttempts, timerSeq>>
    /\ UNCHANGED <<now, delivered, activeLog>>
    /\ Note("timer")

\* ------------------------------------------------- useConnectionStatus.ts
\* history bookkeeping of the health handlers; was is the readyState the
\* event found on its source
HealthNote(op, was) ==
    healthLast' = [op |-> op, was |-> was, from |-> connectionState,
                   stopped |-> CASE op = "stopPolling" -> TRUE
                                 [] op = "startPolling" -> FALSE
                                 [] OTHER -> healthLast.stopped]

\* eventSource.close(): the source is closed at once and no event of it is
\* dispatched afterwards
CloseSource(srcs, e) == [srcs EXCEPT ![e] = "CLOSED"]

\* connect() of useConnectionStatus
health_connect(maxSrc) ==
    /\ Len(eventSources) < maxSrc
    /\ LET closed == IF eventSourceRef # 0
                     THEN CloseSource(eventSources, eventSourceRef)
                     ELSE eventSources
       IN  eventSources' = Append(closed, "CONNECTING")
    /\ eventSourceRef' = Len(eventSources) + 1

\* mutant: disconnect() without setConnectionState("disconnected")
health_disconnect_KeepsState ==
    /\ IF eventSourceRef # 0
       THEN /\ eventSources' = CloseSource(eventSources, eventSourceRef)
            /\ eventSourceRef' = 0
       ELSE UNCHANGED <<eventSources, eventSourceRef>>
    /\ UNCHANGED connectionState

\* disconnect() of useConnectionStatus
health_disconnect ==
    /\ IF eventSourceRef # 0
       THEN /\ eventSources' = CloseSource(eventSources, eventSourceRef)
            /\ eventSourceRef' = 0
       ELSE UNCHANGED <<eventSources, eventSourceRef>>
    /\ connectionState' = "disconnected"

health_startPolling(maxSrc) ==
    /\ health_connect(maxSrc)
    /\ UNCHANGED <<connectionStatus, connectionState>>
    /\ HealthNote("startPolling", "none")
    /\ UNCHANGED <<chan, ctl, url, brewStatus>>

health_stopPolling ==
    /\ health_disconnect
    /\ connectionStatus' = JNull
    /\ HealthNote("stopPolling", "none")
    /\ UNCHANGED <<chan, ctl, url, brewStatus>>

\* eventSource.onopen: the connection of source e is announced
es_onopen(e) ==
    /\ eventSources[e] = "CONNECTING"
    /\ eventSources' = [eventSources EXCEPT ![e] = "OPEN"]
    /\ connectionState' = "connected"
    /\ UNCHANGED <<connectionStatus, eventSourceRef>>
    /\ HealthNote("onopen", eventSources[e])
    /\ UNCHANGED <<chan, ctl, url, brewStatus>>

\* history bookkeeping of a health message event with payload p
HealthNoteMessage(was, p) ==
    healthLast' = [op |-> "onmessage", was |-> was, from |-> connectionState,
                   stopped |-> healthLast.stopped, msg |-> p]

\* mutant: the catch block of eventSource.onmessage drops the held status
es_onmessage_CatchClears(e, p) ==
    /\ eventSources[e] = "OPEN"
    /\ connectionStatus' = IF p.json THEN p.value ELSE JNull
    /\ UNCHANGED <<connectionState, eventSourceRef, eventSources>>
    /\ HealthNoteMessage(eventSources[e], p)
    /\ UNCHANGED <<chan, ctl, url, brewStatus>>

\* eventSource.onmessage
es_onmessage(e, p) ==
    /\ eventSources[e] = "OPEN"
    /\ connectionStatus' = IF p.json THEN p.value ELSE connectionStatus
    /\ UNCHANGED <<connectionState, eventSourceRef, eventSources>>
    /\ HealthNoteMessage(eventSources[e], p)
    /\ UNCHANGED <<chan, ctl, url, brewStatus>>

\* eventSource.onerror: reads the readyState of the held source
es_onerror_handler ==
    IF eventSourceRef # 0 /\ eventSources'[eventSourceRef] = "CLOSED"
    THEN connectionState' = "reconnecting"
    ELSE UNCHANGED connectionState

\* the connection of source e is lost, or an attempt to connect fails on the
\* network: the browser will reconnect; readyState is CONNECTING when the
\* error event is dispatched
es_lost(e) ==
    /\ eventSources[e] \in {"CONNECTING", "OPEN"}
    /\ eventSources' = [eventSources EXCEPT ![e] = "CONNECTING"]
    /\ es_onerror_handler
    /\ UNCHANGED <<connectionStatus, eventSourceRef>>
    /\ HealthNote("onerror", eventSources[e])
    /\ UNCHANGED <<chan, ctl, url, brewStatus>>

\* the server answers an attempt of source e with something that is no event
\* stream: the browser fails the connection for good; readyState is CLOSED
\* when the error event is dispatched
es_failed(e) ==
    /\ eventSources[e] = "CONNECTING"
    /\ eventSources' = [eventSources EXCEPT ![e] = "CLOSED"]
    /\ es_onerror_handler
    /\ UNCHANGED <<connectionStatus, eventSourceRef>>
    /\ HealthNote("failed", eventSources[e])
    /\ UNCHANGED <<chan, ctl, url, brewStatus>>

\* ------------------------------------------------------- useBrewStatus.ts
\* connect() of useBrewStatus
status_connect(maxSrc) ==
    /\ Len(status_sources) < maxSrc
    /\ LET closed == IF status_eventSourceRef # 0
                     THEN CloseSource(status_sources, status_eventSourceRef)
                     ELSE status_sources
       IN  status_sources' = Append(closed, "CONNECTING")
    /\ status_eventSourceRef' = Len(status_sources) + 1

\* disconnect() of useBrewStatus
status_disconnect ==
    IF status_eventSourceRef # 0
    THEN /\ status_sources' = CloseSource(status_sources, status_eventSourceRef)
         /\ status_eventSourceRef' = 0
    ELSE UNCHANGED <<status_sources, status_eventSourceRef>>

startConnection(maxSrc) ==
    /\ status_connect(maxSrc)
    /\ UNCHANGED status_payload

stopConnection ==
    /\ status_disconnect
    /\ status_brewInProgress' = JNull
    /\ status_brewError' = JNull
    /\ UNCHANGED <<status_flowRateHistoryRef, status_weightHistoryRef>>

\* fetchBrewInProgress() of useBrewStatus
status_fetchBrewInProgress(maxSrc) ==
    /\ IF status_eventSourceRef = 0 \/ status_sources[status_eventSourceRef] = "CLOSED"
       THEN status_connect(maxSrc)
       ELSE UNCHANGED <<status_sources, status_eventSourceRef>>
    /\ UNCHANGED status_payload

\* eventSource.onopen of useBrewStatus: logs
status_onopen(e) ==
    /\ status_sources[e] = "CONNECTING"
    /\ status_sources' = [status_sources EXCEPT ![e] = "OPEN"]
    /\ UNCHANGED <<status_payload, status_eventSourceRef>>

\* the try block of eventSource.onmessage, after JSON.parse returned data:
\* what it leaves in the two buffers and publishes, at time timestamp
Handled(data, flowHistory, weightHistory, timestamp) ==
    LET bs == Field(data, "brew_state")
        flowRate == ParseMetric(Field(data, "current_flow_rate"))
        weight == ParseMetric(Field(data, "current_weight"))
        newFlowPoint == [timestamp |-> timestamp, flowRate |-> flowRate, weight |-> JNull]
        newWeightPoint == [timestamp |-> timestamp, flowRate |-> JNull, weight |-> weight]
        newFlow == SliceLast(Append(flowHistory, newFlowPoint), MAX_HISTORY_POINTS)
        newWeight == SliceLast(Append(weightHistory, newWeightPoint), MAX_HISTORY_POINTS)
    IN  [flow |-> IF IsActive(bs) THEN newFlow ELSE IF IsEnded(bs) THEN <<>> ELSE flowHistory,
         weight |-> IF IsActive(bs) THEN newWeight
                    ELSE IF IsEnded(bs) THEN <<>> ELSE weightHistory,
         brewInProgress |->
             IF IsActive(bs)
             THEN SetField(SetField(data, "flow_rate_history", JArr(newFlow)),
                           "weight_history", JArr(newWeight))
             ELSE data,
         brewError |->
             IF bs = JStr("error")
             THEN [t |-> "object",
                   error |-> IF Truthy(Field(data, "error_message"))
                             THEN Field(data, "error_message")
                             ELSE JStr("An error occurred"),
                   timestamp |-> timestamp]
             ELSE JNull]

\* eventSource.onmessage of useBrewStatus; Date.now() is now'
status_onmessage(e, p) ==
    /\ status_sources[e] = "OPEN"
    /\ IF ~p.json \/ p.value.t = "null"
       THEN UNCHANGED status_payload      \* the catch block
       ELSE LET h == Handled(p.value, status_flowRateHistoryRef,
                             status_weightHistoryRef, now')
            IN  /\ status_flowRateHistoryRef' = h.flow
                /\ status_weightHistoryRef' = h.weight
                /\ status_brewInProgress' = h.brewInProgress
                /\ status_brewError' = h.brewError
    /\ UNCHANGED <<status_eventSourceRef, status_sources>>

\* eventSource.onerror of useBrewStatus logs and does nothing else.
\* The connection of source e is lost, or an attempt fails on the network:
\* the browser will reconnect
status_lost(e) ==
    /\ status_sources[e] \in {"CONNECTING", "OPEN"}
    /\ status_sources' = [status_sources EXCEPT ![e] = "CONNECTING"]
    /\ UNCHANGED <<status_payload, status_eventSourceRef>>

\* the server answers an attempt of source e with something that is no event
\* stream: the browser fails the connection for good
status_failed(e) ==
    /\ status_sources[e] = "CONNECTING"
    /\ status_sources' = [status_sources EXCEPT ![e] = "CLOSED"]
    /\ UNCHANGED <<status_payload, status_eventSourceRef>>

\* ---------------------------------------------------------- brewService.ts
\* response.ok
Ok(response) == response.status >= 200 /\ response.status <= 299

\* the promise of an async function: resolved, or rejected with an Error whose
\* message is the given pieces of text joined
Resolved == [t |-> "resolved"]
Rejected(message) == [t |-> "rejected", message |-> message]

\* the record of a control request
Called(fn, response, outcome) == [fn |-> fn, response |-> response, outcome |-> outcome]

pauseBrew(response) ==
    /\ ctl' = Called("pauseBrew", response,
                     IF ~Ok(response)
                     THEN Rejected(<<"Failed to pause brew: ", response.statusText>>)
                     ELSE Resolved)
    /\ UNCHANGED <<chan, url, health, brewStatus>>

resumeBrew(response) ==
    /\ ctl' = Called("resumeBrew", response,
                     IF ~Ok(response)
                     THEN Rejected(<<"Failed to resume brew: ", response.statusText>>)
                     ELSE Resolved)
    /\ UNCHANGED <<chan, url, health, brewStatus>>

\* mutant: nudgeOpen() without the test for status 429
nudgeOpen_No429(response) ==
    /\ ctl' = Called("nudgeOpen", response,
                     IF ~Ok(response)
                     THEN Rejected(<<"Failed to nudge open: ", response.statusText>>)
                     ELSE Resolved)
    /\ UNCHANGED <<chan, url, health, brewStatus>>

nudgeOpen(response) ==
    /\ ctl' = Called("nudgeOpen", response,
                     IF ~Ok(response)
                     THEN IF response.status = 429
                          THEN Rejected(<<"Nudge too frequent, please wait">>)
                          ELSE Rejected(<<"Failed to nudge open: ", response.statusText>>)
                     ELSE Resolved)
    /\ UNCHANGED <<chan, url, health, brewStatus>>

nudgeClose(response) ==
    /\ ctl' = Called("nudgeClose", response,
                     IF ~Ok(response)
                     THEN IF response.status = 429
                          THEN Rejected(<<"Nudge too frequent, please wait">>)
                          ELSE Rejected(<<"Failed to nudge close: ", response.statusText>>)
                     ELSE Resolved)
    /\ UNCHANGED <<chan, url, health, brewStatus>>

\* fetch() rejected: no response arrived
FetchFailed == [failed |-> TRUE]

\* StartBrew.handleSubmit, from the request on: fetch resolves with any
\* response, and the handler then waits 1500 ms before its next step; a
\* rejected fetch goes to the catch block, which logs
handleSubmit(response) ==
    /\ ctl' = [fn |-> "handleSubmit", response |-> response, outcome |-> Resolved,
               refresh |-> IF response = FetchFailed THEN "none" ELSE "due"]
    /\ UNCHANGED <<chan, url, health, brewStatus>>

\* StartBrew.handleSubmit after the wait: await fetchBrewInProgress()
handleSubmit_resume(maxSock) ==
    /\ ctl.fn = "handleSubmit"
    /\ ctl.refresh = "due"
    /\ ctl' = [ctl EXCEPT !.refresh = "done"]
    /\ fetchBrewInProgress(maxSock)
    /\ UNCHANGED brewStatus

\* --------------------------------------------------------------- constants
\* wsUrl()
wsUrl ==
    LET api == getApiUrl(url.env)
    IN  /\ url' = [env |-> url.env, called |-> TRUE,
                   ws |-> replace(replace(replace(api, Api, <<>>), Http, Ws), Https, Wss)]
        /\ UNCHANGED <<chan, ctl, health, brewStatus>>

\* ---------------------------------------------------------- specifications
\* the API URLs that may be configured: none, or a scheme, a host and a path
ApiUrls ==
    {<<>>} \cup
    {scheme \o host \o path :
        scheme \in {Http, Https},
        host \in {Localhost, ApiHost, BrewHost, HttpHost},
        path \in {<<>>, Api, Api \o <<"/">>, V1 \o Api, Api \o V1, Api \o Api, V1}}

\* payloads of the health stream
HealthPayloads ==
    { Garbage,
      Text([t |-> "object", scale |-> JStr("connected"), valve |-> JStr("available")]),
      Text([t |-> "object", scale |-> JStr("disconnected"), valve |-> JStr("available")]) }

\* the responses the backend gives to a control request
Responses ==
    [status : {200, 201, 204, 299, 300, 400, 404, 429, 500, 503},
     statusText : {"", "OK", "Too Many Requests", "Internal Server Error"}]

\* payloads of Spec
SpecPayloads ==
    { Garbage,
      Text(Obj("brewing", JStr("1.5"), JStr("12.5"), JNull)),
      Text(Obj("idle", JNull, JNull, JNull)),
      Text(Obj("error", JNull, JNull, JStr("pump failure"))) }

\* payloads of SpecHist: the n-th message carries values fixed by n
WireAt(n) == CASE n % 3 = 0 -> JStr("0") [] n % 3 = 1 -> JStr("1.5") [] OTHER -> JNull
HistPayloads(n) ==
    { Text(Obj(bs, WireAt(n), WireAt(n + 1), JNull)) :
        bs \in {"brewing"} \cup (IF n % HistPeriod = 0 THEN {"paused", "idle"} ELSE {}) }

\* payloads of SpecMsg: text that is not JSON; JSON that is no object; objects
\* without a brew_state or with one outside the five; and snapshots of every
\* brew_state, with the metrics as numeric strings, null or absent, with an
\* error_message that is text, null or empty, and with a field the type does
\* not name
MsgPayloads ==
    { Garbage,
      Text(JNull),
      Text(JNum(5000)),
      Text(JStr("brewing")),
      Text(JArr(<<>>)),
      Text([t |-> "object", brew_id |-> JStr("b1")]),
      Text(Obj("finished", JStr("1.5"), JStr("12.5"), JNull)),
      Text(Obj("brewing", JStr("1.5"), JStr("12.5"), JNull)),
      Text(Obj("brewing", JStr("0"), JNull, JNull)),
      Text([t |-> "object", brew_state |-> JStr("paused"),
            current_weight |-> JStr("0"), error_message |-> JNull]),
      Text(SetField(Obj("paused", JNull, JStr("0.05"), JNull), "firmware", JStr("2.1"))),
      Text(Obj("completed", JStr("0"), JStr("250"), JNull)),
      Text(Obj("idle", JNull, JNull, JNull)),
      Text(Obj("error", JNull, JNull, JStr("pump failure"))),
      Text(Obj("error", JNull, JNull, JNull)),
      Text(Obj("error", JStr("1.5"), JNull, JStr(""))) }

Next ==
    \/ startPolling(MaxSockets) /\ UNCHANGED brewStatus
    \/ stopPolling /\ UNCHANGED brewStatus
    \/ fetchBrewInProgress(MaxSockets) /\ UNCHANGED ctl /\ UNCHANGED brewStatus
    \/ \E w \in 1..Len(sockets) : ws_onopen(w) /\ UNCHANGED brewStatus
    \/ \E w \in 1..Len(sockets) : \E p \in SpecPayloads : \E adv \in {0, 1} :
           ws_onmessage(w, p, adv, MaxMsgs) /\ UNCHANGED brewStatus
    \/ \E w \in 1..Len(sockets) : ws_onerror(w) /\ UNCHANGED brewStatus
    \/ \E w \in 1..Len(sockets) : ws_onclose(w) /\ UNCHANGED brewStatus
    \/ \E w \in 1..Len(sockets) : ServerClosing(w) /\ UNCHANGED brewStatus
    \/ \E t \in timers : timerCallback(t, MaxSockets) /\ UNCHANGED brewStatus

Spec == Init /\ [][Next]_vars

\* the lifecycle calls and the open, message and close events under a long run
\* of messages with values fixed by their position, one clock tick per message
NextHist ==
    \/ startPolling(MaxSocketsHist) /\ UNCHANGED brewStatus
    \/ stopPolling /\ UNCHANGED brewStatus
    \/ fetchBrewInProgress(MaxSocketsHist) /\ UNCHANGED ctl /\ UNCHANGED brewStatus
    \/ \E w \in 1..Len(sockets) : ws_onopen(w) /\ UNCHANGED brewStatus
    \/ \E w \in 1..Len(sockets) : \E p \in HistPayloads(delivered) :
           ws_onmessage(w, p, 1, MaxMsgsHist) /\ UNCHANGED brewStatus
    \/ \E w \in 1..Len(sockets) : ws_onclose(w) /\ UNCHANGED brewStatus
    \/ \E t \in timers : timerCallback(t, MaxSocketsHist) /\ UNCHANGED brewStatus

SpecHist == Init /\ [][NextHist]_vars

\* payloads of SpecOrder: an active snapshot, an ended brew, text that is not JSON
OrderPayloads ==
    { Garbage,
      Text(Obj("brewing", JStr("1.5"), JNull, JNull)),
      Text(Obj("completed", JNull, JStr("250"), JNull)) }

\* messages under a clock that stands still or advances between them, with
\* the held socket replaced by start, by ensureConnected and by the reconnect
\* timer, and with the logs recorded
NextOrder ==
    \/ startPolling(MaxSocketsOrder) /\ UNCHANGED brewStatus
    \/ fetchBrewInProgress(MaxSocketsOrder) /\ UNCHANGED ctl /\ UNCHANGED brewStatus
    \/ \E w \in 1..Len(sockets) : ws_onopen(w) /\ UNCHANGED brewStatus
    \/ \E w \in 1..Len(sockets) : \E p \in OrderPayloads : \E adv \in {0, 1} :
           ws_onmessage(w, p, adv, MaxMsgsOrder) /\ UNCHANGED brewStatus
    \/ \E w \in 1..Len(sockets) : ws_onclose(w) /\ UNCHANGED brewStatus
    \/ \E t \in timers : timerCallback(t, MaxSocketsOrder) /\ UNCHANGED brewStatus

SpecOrder == InitLogged /\ [][NextOrder]_vars

\* the message handler under every kind of payload, one clock tick per
\* message, with the lifecycle calls and the events of one socket, and with
\* the logs recorded
NextMsg ==
    \/ startPolling(MaxSocketsMsg) /\ UNCHANGED brewStatus
    \/ stopPolling /\ UNCHANGED brewStatus
    \/ fetchBrewInProgress(MaxSocketsMsg) /\ UNCHANGED ctl /\ UNCHANGED brewStatus
    \/ \E w \in 1..Len(sockets) : ws_onopen(w) /\ UNCHANGED brewStatus
    \/ \E w \in 1..Len(sockets) : \E p \in MsgPayloads :
           ws_onmessage(w, p, 1, MaxMsgsMsg) /\ UNCHANGED brewStatus
    \/ \E w \in 1..Len(sockets) : ws_onerror(w) /\ UNCHANGED brewStatus
    \/ \E w \in 1..Len(sockets) : ws_onclose(w) /\ UNCHANGED brewStatus

SpecMsg == InitLogged /\ [][NextMsg]_vars

\* the reconnect loop left to itself: startPolling() is called once, then only
\* the events of the sockets and the timer callback run, with the logs recorded
NextBackoff ==
    \/ sockets = <<>> /\ startPolling(MaxSocketsBackoff) /\ UNCHANGED brewStatus
    \/ \E w \in 1..Len(sockets) : ws_onopen(w) /\ UNCHANGED brewStatus
    \/ \E w \in 1..Len(sockets) : ws_onerror(w) /\ UNCHANGED brewStatus
    \/ \E w \in 1..Len(sockets) : ws_onclose(w) /\ UNCHANGED brewStatus
    \/ \E w \in 1..Len(sockets) : ServerClosing(w) /\ UNCHANGED brewStatus
    \/ \E t \in timers : timerCallback(t, MaxSocketsBackoff) /\ UNCHANGED brewStatus

SpecBackoff == InitLogged /\ [][NextBackoff]_vars

\* a timer set by window.setTimeout fires once its delay has passed
SpecBackoffFair ==
    SpecBackoff /\
        WF_vars(\E t \in timers : timerCallback(t, MaxSocketsBackoff) /\ UNCHANGED brewStatus)

\* the control requests, each answered by any response
NextCtl ==
    \/ \E response \in Responses : pauseBrew(response)
    \/ \E response \in Responses : resumeBrew(response)
    \/ \E response \in Responses : nudgeOpen(response)
    \/ \E response \in Responses : nudgeClose(response)
    \/ \E response \in Responses \cup {FetchFailed} : handleSubmit(response)
    \/ handleSubmit_resume(MaxSocketsCtl)

SpecCtl == Init /\ [][NextCtl]_vars

\* wsUrl() under every configured API URL
InitUrl ==
    /\ Boot
    /\ logging = FALSE
    /\ \E env \in ApiUrls : url = [env |-> env, called |-> FALSE, ws |-> <<>>]

NextUrl == wsUrl

SpecUrl == InitUrl /\ [][NextUrl]_vars

\* the health channel: its lifecycle calls and the events of its sources
NextHealth ==
    \/ health_startPolling(MaxSources)
    \/ health_stopPolling
    \/ \E e \in 1..Len(eventSources) : es_onopen(e)
    \/ \E e \in 1..Len(eventSources) : \E p \in HealthPayloads : es_onmessage(e, p)
    \/ \E e \in 1..Len(eventSources) : es_lost(e)
    \/ \E e \in 1..Len(eventSources) : es_failed(e)

SpecHealth == Init /\ [][NextHealth]_vars

\* the held transport of each channel is in one of the given states
SocketHeld(states) == wsRef # 0 /\ sockets[wsRef] \in states
SourceHeld(states) ==
    status_eventSourceRef # 0 /\ status_sources[status_eventSourceRef] \in states

\* the socket channel and the stream channel side by side: the same lifecycle
\* call is made on both, and the backend's events (it accepts a connection,
\* sends a message, drops a connection, refuses a connection) reach the held
\* transport of each channel that has one in the state the event needs
Both_start ==
    /\ startPolling(MaxSocketsEq)
    /\ startConnection(MaxSourcesEq)

Both_stop ==
    /\ stopPolling
    /\ stopConnection

Both_fetchBrewInProgress ==
    /\ fetchBrewInProgress(MaxSocketsEq)
    /\ status_fetchBrewInProgress(MaxSourcesEq)
    /\ UNCHANGED ctl

Backend_accepts ==
    /\ SocketHeld({"CONNECTING"}) \/ SourceHeld({"CONNECTING"})
    /\ IF SocketHeld({"CONNECTING"}) THEN ws_onopen(wsRef) ELSE UNCHANGED chan
    /\ IF SourceHeld({"CONNECTING"})
       THEN status_onopen(status_eventSourceRef)
       ELSE UNCHANGED brewStatus
    /\ UNCHANGED <<ctl, url, health>>

Backend_sends(p) ==
    /\ delivered < MaxMsgsEq
    /\ SocketHeld({"OPEN"}) \/ SourceHeld({"OPEN"})
    /\ IF SocketHeld({"OPEN"})
       THEN ws_onmessage(wsRef, p, 1, MaxMsgsEq)
       ELSE /\ now' = now + 1
            /\ delivered' = delivered + 1
            /\ UNCHANGED <<prog, hist, logs>>
    /\ IF SourceHeld({"OPEN"})
       THEN status_onmessage(status_eventSourceRef, p)
       ELSE UNCHANGED brewStatus
    /\ UNCHANGED <<ctl, url, health>>

Backend_drops ==
    /\ SocketHeld({"CONNECTING", "OPEN"}) \/ SourceHeld({"CONNECTING", "OPEN"})
    /\ IF SocketHeld({"CONNECTING", "OPEN"}) THEN ws_onclose(wsRef) ELSE UNCHANGED chan
    /\ IF SourceHeld({"CONNECTING", "OPEN"})
       THEN status_lost(status_eventSourceRef)
       ELSE UNCHANGED brewStatus
    /\ UNCHANGED <<ctl, url, health>>

Backend_refuses ==
    /\ SocketHeld({"CONNECTING"}) \/ SourceHeld({"CONNECTING"})
    /\ IF SocketHeld({"CONNECTING"}) THEN ws_onclose(wsRef) ELSE UNCHANGED chan
    /\ IF SourceHeld({"CONNECTING"})
       THEN status_failed(status_eventSourceRef)
       ELSE UNCHANGED brewStatus
    /\ UNCHANGED <<ctl, url, health>>

\* payloads of SpecBoth
BothPayloads ==
    { Text(Obj("brewing", JStr("1.5"), JStr("12.5"), JNull)),
      Text(Obj("error", JNull, JNull, JStr("pump failure"))) }

\* besides the above, the socket channel's own steps: the close event of a
\* socket it closed, and its reconnect timer
NextBoth ==
    \/ Both_start
    \/ Both_stop
    \/ Both_fetchBrewInProgress
    \/ Backend_accepts
    \/ \E p \in BothPayloads : Backend_sends(p)
    \/ Backend_drops
    \/ Backend_refuses
    \/ \E w \in 1..Len(sockets) :
           sockets[w] = "CLOSING" /\ ws_onclose(w) /\ UNCHANGED brewStatus
    \/ \E t \in timers : timerCallback(t, MaxSocketsEq) /\ UNCHANGED brewStatus

SpecBoth == Init /\ [][NextBoth]_vars

\* ------------------------------------------------------------------ claims

\* C1: at most one transport opened by the channel is open or connecting at
\* any time.
C1_AtMostOneTransport == Cardinality(LiveSockets) <= 1

\* C2: once stopPolling() has returned, and until startPolling() or
\* fetchBrewInProgress() is called, no transport is opened and no callback
\* changes the snapshot, the error state, the history buffers, the attempt
\* counter or the timer handle.
C2_StopIsFinal ==
    [][(stopped /\ stopped') =>
          /\ Len(sockets') = Len(sockets)
          /\ UNCHANGED <<payload, reconnectAttempts, reconnectTimeoutRef>>]_vars

\* C3: stopPolling() called while a reconnect timer is pending and no transport
\* is open cancels the timer: no timer callback runs afterwards and no further
\* connection attempt is made until the next explicit start.
C3_StopCancelsReconnect ==
    [][(stoppedIdle /\ stoppedIdle') =>
          /\ last'.op # "timer"
          /\ Len(sockets') = Len(sockets)]_vars

\* C4: an open or connecting transport and a pending reconnect timer never
\* exist at the same time.
C4_TransportExcludesTimer == ~(LiveSockets # {} /\ timers # {})

\* C5 (as claimed): startPolling() while the held transport is open, or while a
\* reconnect timer is pending, closes no transport, opens none and touches no
\* timer.
StartPre == (wsRef # 0 /\ sockets[wsRef] = "OPEN") \/ timers # {}
C6_StopClearsAll ==
    last.op = "stopPolling" =>
        /\ brewInProgress = JNull
        /\ brewError = JNull
        /\ flowRateHistoryRef = <<>>
        /\ weightHistoryRef = <<>>

\* C7: stopPolling() on a channel that was never started leaves the initial
\* state, and a stopPolling() that directly follows a stopPolling() changes
\* nothing: stop(); stop() equals stop(), from every reachable state.
InitialProg ==
    /\ payload = <<JNull, JNull, <<>>, <<>>>>
    /\ conn = <<0, 0, 0, <<>>, {}, 0>>
C7_StopIdempotent ==
    [][last'.op = "stopPolling" =>
          /\ InitialProg => InitialProg'
          /\ last.op = "stopPolling" => UNCHANGED prog]_vars
C7_Witness ==
    /\ stopRun = 2
    /\ Len(sockets) > 0
    /\ \E w \in 1..Len(sockets) : sockets[w] = "CLOSING"

\* C8: fetchBrewInProgress() while the held transport is open changes nothing;
\* called when no transport (or a closed one) is held, it opens exactly one
\* transport, which becomes the held one, and touches no other transport and
\* no timer.
C8_EnsureConnected ==
    [][last'.op = "fetchBrewInProgress" =>
          IF wsRef # 0 /\ sockets[wsRef] = "OPEN"
          THEN UNCHANGED prog
          ELSE (wsRef = 0 \/ sockets[wsRef] = "CLOSED") =>
                 /\ Len(sockets') = Len(sockets) + 1
                 /\ sockets'[Len(sockets')] = "CONNECTING"
                 /\ wsRef' = Len(sockets')
                 /\ \A w \in 1..Len(sockets) : sockets'[w] = sockets[w]
                 /\ UNCHANGED <<payload, timers, timerSeq, reconnectTimeoutRef,
                                reconnectAttempts>>]_vars
C8_Witness ==
    /\ last = [op |-> "fetchBrewInProgress", held |-> "OPEN"]
    /\ wsRef # 0
    /\ sockets[wsRef] = "OPEN"

\* C9: the length of each history buffer never exceeds 128.
C9_HistoryBounded ==
    /\ Len(flowRateHistoryRef) <= MAX_HISTORY_POINTS
    /\ Len(weightHistoryRef) <= MAX_HISTORY_POINTS
C9_Witness ==
    /\ Len(activeLog) > MAX_HISTORY_POINTS
    /\ Len(flowRateHistoryRef) = MAX_HISTORY_POINTS
    /\ Len(weightHistoryRef) = MAX_HISTORY_POINTS

\* C10: after k consecutive active snapshots since the buffers were last
\* empty, each buffer holds exactly the samples of the most recent min(k, 128)
\* of them, in arrival order.
MostRecent(log, n) ==
    LET k == Len(log)
        m == IF k < n THEN k ELSE n
    IN  [i \in 1..m |-> log[k - m + i]]
C10_MostRecentSamples ==
    LET recent == MostRecent(activeLog, 128)
    IN  /\ flowRateHistoryRef = [i \in 1..Len(recent) |-> recent[i].flow]
        /\ weightHistoryRef = [i \in 1..Len(recent) |-> recent[i].weight]
C10_Witness ==
    /\ Len(activeLog) = 129
    /\ last.op = "onmessage"
    /\ flowRateHistoryRef[1] = activeLog[2].flow
    /\ flowRateHistoryRef[128] = activeLog[129].flow

\* brew_state of the message the last step delivered, undefined when the last
\* step delivered none or the message was no JSON
LastState ==
    IF last.op = "onmessage" /\ last.msg.json
    THEN Field(last.msg.value, "brew_state")
    ELSE JUndef

\* brew_state of the i-th delivered message
StateAt(i) == IF msgLog[i].json THEN Field(msgLog[i].value, "brew_state") ELSE JUndef

\* C11: a message whose brew_state is completed, idle or error leaves both
\* history buffers empty, whatever they held; a message whose brew_state is
\* brewing or paused never leaves them empty.
C11_EndClearsHistory ==
    /\ LastState \in {JStr("completed"), JStr("idle"), JStr("error")}
           => flowRateHistoryRef = <<>> /\ weightHistoryRef = <<>>
    /\ LastState \in {JStr("brewing"), JStr("paused")}
           => flowRateHistoryRef # <<>> /\ weightHistoryRef # <<>>

\* a completed snapshot arrived right after an active one had filled the buffers
C11_Witness ==
    /\ LastState = JStr("completed")
    /\ Len(msgLog) = 2
    /\ StateAt(1) = JStr("brewing")
    /\ flowRateHistoryRef = <<>>
    /\ weightHistoryRef = <<>>

\* C12: a payload that is no JSON changes neither the snapshot, nor the error
\* state, nor a buffer, nor the transport, the timer or the counter.
C12_UndecodableIgnored ==
    [][(last'.op = "onmessage" /\ ~last'.msg.json) => UNCHANGED <<payload, conn>>]_vars

\* text that is no JSON arrived while a snapshot and samples were held, and
\* they are still held, on a socket that is still open
C12_Witness ==
    /\ last.op = "onmessage"
    /\ ~last.msg.json
    /\ brewInProgress # JNull
    /\ flowRateHistoryRef # <<>>
    /\ weightHistoryRef # <<>>
    /\ Held = "OPEN"
    /\ timers = {}

\* C13: the error state is present exactly when a snapshot is held and its
\* brew_state is error, and its text is then the snapshot's error_message, or
\* "An error occurred" when that is null, absent or empty.
C13_ErrorIffErrorSnapshot ==
    LET em == Field(brewInProgress, "error_message")
    IN  /\ (brewError # JNull) <=>
               (brewInProgress # JNull /\ Field(brewInProgress, "brew_state") = JStr("error"))
        /\ brewError # JNull =>
               brewError.error = IF em \in {JNull, JUndef, JStr("")}
                                 THEN JStr("An error occurred")
                                 ELSE em

\* an error snapshot set the error state and the brewing snapshot that followed
\* cleared it
C13_Witness ==
    /\ LastState = JStr("brewing")
    /\ Len(msgLog) = 2
    /\ Len(pubLog) = 2
    /\ StateAt(1) = JStr("error")
    /\ ~stopped
    /\ brewError = JNull

\* what the decoder is meant to accept: JSON of an object whose brew_state is
\* one of the five
IsSnapshot(v) ==
    /\ v.t = "object"
    /\ Field(v, "brew_state") \in
           {JStr("brewing"), JStr("paused"), JStr("completed"), JStr("idle"), JStr("error")}
Decodable(p) == p.json /\ IsSnapshot(p.value)

\* a published value without the history copies onmessage adds to it
Wire(o) ==
    IF o.t = "object"
    THEN [f \in DOMAIN o \ {"flow_rate_history", "weight_history"} |-> o[f]]
    ELSE o

\* C14: the snapshots published by onmessage are exactly the decodable
\* messages, in delivery order, and right after a delivery the held snapshot
\* is the most recent decodable message.
C14_PublishedInOrder ==
    LET dec == SelectSeq(msgLog, Decodable)
    IN  /\ Len(pubLog) = Len(dec)
        /\ \A i \in 1..Len(pubLog) : i <= Len(dec) => Wire(pubLog[i]) = dec[i].value
        /\ (last.op = "onmessage" /\ dec # <<>>) =>
               Wire(brewInProgress) = dec[Len(dec)].value

\* C18: JSON that is no snapshot (a number, a string, an array, an object
\* without a brew_state or with one outside the five) is rejected as text that
\* is no JSON is: nothing is published, and the snapshot, the error state and
\* both buffers stay as they were.
C18_NonSnapshotRejected ==
    [][(last'.op = "onmessage" /\ last'.msg.json /\ ~IsSnapshot(last'.msg.value))
          => UNCHANGED <<payload, pubLog>>]_vars

\* the wire value of field f in the message the last step delivered
LastWire(f) == Field(last.msg.value, f)

\* the newest sample of a buffer
Newest(buffer) == buffer[Len(buffer)]

\* how a wire metric (a numeric string, null, or absent) and its sample agree
SampleAgrees(wire, sample) ==
    /\ (sample = JNull) <=> (wire \in {JNull, JUndef})
    /\ wire = JStr("0") => sample = JNum(0)
    /\ wire \in {JNull, JUndef} => sample # JNum(0)

\* C19: the sample appended for an active snapshot is null exactly when the
\* wire field (current_flow_rate for the flow buffer, current_weight for the
\* weight buffer) is null or absent; the wire value "0" gives the number 0,
\* and a null or absent wire value never gives 0.
C19_NullIffUnavailable ==
    LastState \in {JStr("brewing"), JStr("paused")} =>
        /\ SampleAgrees(LastWire("current_flow_rate"), Newest(flowRateHistoryRef).flowRate)
        /\ SampleAgrees(LastWire("current_weight"), Newest(weightHistoryRef).weight)

\* an active snapshot with flow "0" and no weight gave the samples 0 and null
C19_Witness ==
    /\ LastState = JStr("brewing")
    /\ LastWire("current_flow_rate") = JStr("0")
    /\ LastWire("current_weight") = JNull
    /\ Newest(flowRateHistoryRef).flowRate = JNum(0)
    /\ Newest(weightHistoryRef).weight = JNull

\* min(1000 * 2^attempt, 30000)
BackoffOf(attempt) == IF 1000 * (2 ^ attempt) < 30000 THEN 1000 * (2 ^ attempt) ELSE 30000

\* the delay of the timer a step creates
NewDelay(d) == \E t \in timers' \ timers : t.delay = d

C16_OpenResetsBackoff ==
    [][/\ last'.op = "onopen" => reconnectAttempts' = 0
       /\ (last'.op = "onclose" /\ preOpen # -1 /\ delayLog = <<>>) => NewDelay(1000)]_vars

\* an open that followed four failed attempts, then the first closure after it
C16_Witness ==
    /\ last.op = "onclose"
    /\ preOpen = 4
    /\ delayLog = <<1000>>
    /\ reconnectAttempts = 1

\* C17: once started, the channel is never left with no transport and no
\* pending timer, and every pending timer is followed by a new socket: each
\* closure is followed by a new attempt, with no limit on their number.
C17_AlwaysRetries ==
    /\ [](sockets # <<>> =>
             \/ timers # {}
             \/ \E w \in 1..Len(sockets) : sockets[w] # "CLOSED")
    /\ \A n \in 1..(MaxSocketsBackoff - 1) :
           (Len(sockets) = n /\ timers # {}) ~> (Len(sockets) > n)

\* an attempt made after seven failed ones
C17_Witness ==
    /\ reconnectAttempts = 7
    /\ last.op = "timer"
    /\ LiveSockets # {}

\* C20: nudgeOpen() and nudgeClose() report no failure for a 2xx response,
\* report status 429 as the failure "Nudge too frequent, please wait", and
\* report every other non-2xx status as a failure different from that one.
C20_ThrottleDistinct ==
    ctl.fn \in {"nudgeOpen", "nudgeClose"} =>
        LET status == ctl.response.status
            throttled == Rejected(<<"Nudge too frequent, please wait">>)
        IN  /\ status \in 200..299 <=> ctl.outcome = Resolved
            /\ status = 429 <=> ctl.outcome = throttled
            /\ (status \notin 200..299 /\ status # 429) =>
                   ctl.outcome.t = "rejected" /\ ctl.outcome # throttled

\* nudgeClose() was answered 429
C20_Witness ==
    /\ ctl.fn = "nudgeClose"
    /\ ctl.response.status = 429
    /\ ctl.outcome = Rejected(<<"Nudge too frequent, please wait">>)

\* C21: every control request (pause, resume, nudge open, nudge close, start)
\* answered by a non-2xx response surfaces a failure to its caller, for pause
\* and resume one that carries the status text; a 2xx response surfaces none.
C21_FailureSurfaced ==
    (ctl.fn # "none" /\ ctl.response # FetchFailed) =>
        /\ ctl.response.status \in 200..299 <=> ctl.outcome = Resolved
        /\ (ctl.response.status \notin 200..299 /\ ctl.fn \in {"pauseBrew", "resumeBrew"}) =>
               /\ ctl.outcome.t = "rejected"
               /\ ctl.outcome.message[Len(ctl.outcome.message)] = ctl.response.statusText

\* C22: a control action calls fetchBrewInProgress() only after its request
\* has completed successfully.
C22_RefreshAfterSuccess ==
    (last.op = "fetchBrewInProgress" /\ ctl.fn = "handleSubmit" /\ ctl.refresh = "done") =>
        (ctl.response # FetchFailed /\ ctl.response.status \in 200..299)

\* whether s ends with, or starts with, the given text
EndsWith(s, text) == Len(s) >= Len(text) /\ SubSeq(s, Len(s) - Len(text) + 1, Len(s)) = text
StartsWith(s, text) == Len(s) >= Len(text) /\ SubSeq(s, 1, Len(text)) = text

\* the base with a trailing /api removed and the scheme http replaced by ws,
\* https by wss
Rewritten(base) ==
    LET stripped == IF EndsWith(base, Api) THEN SubSeq(base, 1, Len(base) - Len(Api)) ELSE base
    IN  CASE StartsWith(stripped, Http) -> Ws \o SubSeq(stripped, Len(Http) + 1, Len(stripped))
          [] StartsWith(stripped, Https) -> Wss \o SubSeq(stripped, Len(Https) + 1, Len(stripped))
          [] OTHER -> stripped

\* C23: for every configured base API URL, wsUrl() is the base with only a
\* trailing /api removed and the scheme http replaced by ws (https by wss);
\* /api elsewhere in the URL, as in the host api.ex.com, is left untouched.
C23_WsUrlRewrite == url.called => url.ws = Rewritten(getApiUrl(url.env))

\* C24: the connection state is disconnected initially and after every stop
\* call, whatever it was; it becomes connected exactly on an open event; and
\* after stop nothing but a new start moves it away from disconnected.
C24_DisconnectedAndConnected ==
    /\ [](healthLast.op \in {"init", "stopPolling"} => connectionState = "disconnected")
    /\ [](healthLast.stopped => connectionState = "disconnected")
    /\ [](healthLast.op = "onopen" => connectionState = "connected")
    /\ [][(connectionState' = "connected" /\ connectionState # "connected")
              => healthLast'.op = "onopen"]_vars

\* stop was called while the state was connected
C24_Witness ==
    /\ healthLast.op = "stopPolling"
    /\ healthLast.from = "connected"
    /\ connectionState = "disconnected"

\* C25: when an open transport closes without a stop call, the connection
\* state becomes reconnecting and a reconnect is on its way.
C25_ClosureReconnects ==
    [][(healthLast'.op \in {"onerror", "failed"} /\ healthLast'.from = "connected")
          => /\ connectionState' = "reconnecting"
             /\ \E e \in 1..Len(eventSources') : eventSources'[e] = "CONNECTING"]_vars

\* C26: the stream channel and the socket channel, driven by the same calls
\* and events, publish the same snapshot, error state and history after every
\* step, and each of them, unless stopped, is left after a closure with a
\* transport that is connecting or open, or with a reconnect on its way.
C26_ChannelsAgree ==
    /\ status_brewInProgress = brewInProgress
    /\ status_brewError = brewError
    /\ status_flowRateHistoryRef = flowRateHistoryRef
    /\ status_weightHistoryRef = weightHistoryRef
    /\ status_eventSourceRef # 0 => SourceHeld({"CONNECTING", "OPEN"})
    /\ (sockets # <<>> /\ ~stopped) =>
           \/ timers # {}
           \/ \E w \in 1..Len(sockets) : sockets[w] # "CLOSED"


\* ------------------------------------------------------------------ C27
\* C27 as stated: the reconnect attempt counter is never negative and changes
\* in only two ways: an open event sets it to 0 and a closure that schedules
\* a retry increases it by exactly 1; message events, error events, timer
\* firings, start, ensureConnected and stop leave it unchanged.
C27_CounterTwoWays ==
    /\ [](reconnectAttempts >= 0)
    /\ [][CASE last'.op = "onopen" -> reconnectAttempts' = 0
            [] last'.op = "onclose" ->
                   /\ reconnectAttempts' = reconnectAttempts + 1
                   /\ Cardinality(timers') = Cardinality(timers) + 1
            [] OTHER -> reconnectAttempts' = reconnectAttempts]_vars

\* C27 amended: the counter is never negative and changes in only three
\* ways: an open event sets it to 0, a closure that schedules a retry
\* increases it by exactly 1, and stop (through disconnect()) sets it to 0;
\* message events, error events, timer firings, start and ensureConnected
\* leave it unchanged.
C27_CounterThreeWays ==
    /\ [](reconnectAttempts >= 0)
    /\ [][CASE last'.op \in {"onopen", "stopPolling"} -> reconnectAttempts' = 0
            [] last'.op = "onclose" ->
                   /\ reconnectAttempts' = reconnectAttempts + 1
                   /\ Cardinality(timers') = Cardinality(timers) + 1
            [] OTHER -> reconnectAttempts' = reconnectAttempts]_vars

\* stop found counted attempts and reset them
C27_Witness ==
    /\ last.op = "stopPolling"
    /\ last.counted
    /\ reconnectAttempts = 0


\* ------------------------------------------------------------------ C28
\* C28: every scheduled reconnect delay lies in [1000, 30000] ms, for every
\* counter value; and the delays scheduled since the last open are
\* non-decreasing, each being twice the previous one or the 30000 ms cap.
C28_DelayBounded ==
    /\ \A n \in 0..MaxAttempts : Delay(n) \in RECONNECT_DELAY_MS..MAX_RECONNECT_DELAY_MS
    /\ \A t \in timers : t.delay \in RECONNECT_DELAY_MS..MAX_RECONNECT_DELAY_MS
    /\ \A i \in 1..Len(delayLog) :
           /\ delayLog[i] \in RECONNECT_DELAY_MS..MAX_RECONNECT_DELAY_MS
           /\ i > 1 =>
                  /\ delayLog[i] >= delayLog[i - 1]
                  /\ \/ delayLog[i] = 2 * delayLog[i - 1]
                     \/ delayLog[i] = MAX_RECONNECT_DELAY_MS

\* after an open, closures doubled the delay up to the cap and stayed there
C28_Witness ==
    /\ preOpen # -1
    /\ Len(delayLog) >= 7
    /\ delayLog[5] = 16000
    /\ delayLog[6] = MAX_RECONNECT_DELAY_MS
    /\ delayLog[7] = MAX_RECONNECT_DELAY_MS


\* ------------------------------------------------------------------ C29
\* two buffers pair index by index: same length, same timestamp per index
Paired(flowHistory, weightHistory) ==
    /\ Len(flowHistory) = Len(weightHistory)
    /\ \A i \in 1..Len(flowHistory) : flowHistory[i].timestamp = weightHistory[i].timestamp

\* C29: in every reachable state the flow-rate buffer and the weight buffer
\* have the same length and their samples at equal index carry the same
\* timestamp, in the refs and in the histories of the published snapshot.
C29_BuffersPaired ==
    /\ Paired(flowRateHistoryRef, weightHistoryRef)
    /\ Field(brewInProgress, "flow_rate_history") # JUndef =>
           /\ Field(brewInProgress, "weight_history") # JUndef
           /\ Paired(brewInProgress.flow_rate_history.v, brewInProgress.weight_history.v)

\* the buffers were cleared by an ended brew, then filled past the cap, with
\* samples that lack a weight among them
C29_Witness ==
    /\ delivered > Len(activeLog)
    /\ Len(activeLog) > MAX_HISTORY_POINTS
    /\ Len(flowRateHistoryRef) = Len(weightHistoryRef)
    /\ \E i \in 1..Len(weightHistoryRef) :
           /\ weightHistoryRef[i].weight = JNull
           /\ flowRateHistoryRef[i].flowRate # JNull


\* ------------------------------------------------------------------ C30
\* timestamps that never decrease along a buffer
NonDecreasing(buffer) ==
    \A i \in 1..Len(buffer) : \A j \in i..Len(buffer) :
        buffer[i].timestamp <= buffer[j].timestamp

\* C30: each history buffer holds its samples in the order of their
\* insertion, and the timestamps never decrease along it, whichever sockets
\* delivered the messages and whether or not the clock advanced between them.
C30_InsertionOrder ==
    LET k == Len(activeLog)
        m == Len(flowRateHistoryRef)
    IN  /\ NonDecreasing(flowRateHistoryRef)
        /\ NonDecreasing(weightHistoryRef)
        /\ m <= k
        /\ Len(weightHistoryRef) = m
        /\ \A i \in 1..m :
               /\ flowRateHistoryRef[i] = activeLog[k - m + i].flow
               /\ weightHistoryRef[i] = activeLog[k - m + i].weight

\* samples delivered by two sockets in one buffer, two of them at the same
\* instant and one later
C30_Witness ==
    /\ Cardinality(sampleSockets) = 2
    /\ Len(flowRateHistoryRef) = 3
    /\ flowRateHistoryRef[1].timestamp = flowRateHistoryRef[2].timestamp
    /\ flowRateHistoryRef[2].timestamp < flowRateHistoryRef[3].timestamp


\* ------------------------------------------------------------------ C31
\* C31: only message handling and stop change the payload state: open, error
\* and close events, timer firings, start and ensureConnected leave the held
\* snapshot, the error state and both history buffers unchanged; and a
\* message event never changes the attempt counter, the timer handle or the
\* transport reference.
C31_PayloadFrame ==
    [][/\ last'.op \notin {"onmessage", "stopPolling"} => UNCHANGED payload
       /\ last'.op = "onmessage" =>
              UNCHANGED <<reconnectAttempts, reconnectTimeoutRef, wsRef>>]_vars

\* an error event of a socket while a snapshot and samples are held
C31_Witness ==
    /\ last.op = "onerror"
    /\ brewInProgress # JNull
    /\ flowRateHistoryRef # <<>>
    /\ weightHistoryRef # <<>>


\* ------------------------------------------------------------------ C32
\* C32: every socket that is open or connecting is the one held in wsRef, and
\* the close event of a socket that connect() has replaced neither clears the
\* reference to its successor nor schedules a reconnect.
C32_LiveIsHeld ==
    /\ [](\A w \in LiveSockets : w = wsRef)
    /\ [][(last'.op = "onclose" /\ wsRef # 0 /\ sockets'[wsRef] # "CLOSED") =>
              /\ wsRef' = wsRef
              /\ timers' = timers]_vars


\* ------------------------------------------------------------------ C33
\* C33: at most one reconnect timer is pending at any time, and a pending
\* timer is the one recorded in reconnectTimeoutRef, so that the clearTimeout
\* of disconnect() cancels every pending reconnect.
C33_OneTimerHeld ==
    /\ Cardinality(timers) <= 1
    /\ \A t \in timers : t.id = reconnectTimeoutRef


\* ------------------------------------------------------------------ C34
\* C34: the snapshot published for a message with an active state carries
\* flow_rate_history and weight_history equal to the two buffers right after
\* the append, non-empty and ending with the sample of this message, in
\* arrays of their own that no later message writes; the snapshot published
\* for a message with a non-active state is the decoded value as it came.
C34_PublishedHistory ==
    /\ heap.arrays[heap.flowRef] = flowRateHistoryRef
    /\ heap.arrays[heap.weightRef] = weightHistoryRef
    /\ \A k \in 1..Len(heap.published) :
           LET pub == heap.published[k]
           IN  /\ heap.arrays[pub.flow] = pub.flowAt
               /\ heap.arrays[pub.weight] = pub.weightAt
               /\ {pub.flow, pub.weight} \cap {heap.flowRef, heap.weightRef} = {}
    /\ (last.op = "onmessage" /\ last.msg.json /\ last.msg.value.t # "null") =>
           LET data == last.msg.value
           IN  IF IsActive(Field(data, "brew_state"))
               THEN /\ brewInProgress.flow_rate_history = JArr(flowRateHistoryRef)
                    /\ brewInProgress.weight_history = JArr(weightHistoryRef)
                    /\ heap.published[Len(heap.published)].flowAt = flowRateHistoryRef
                    /\ heap.published[Len(heap.published)].weightAt = weightHistoryRef
                    /\ flowRateHistoryRef # <<>>
                    /\ weightHistoryRef # <<>>
                    /\ flowRateHistoryRef[Len(flowRateHistoryRef)] =
                           [timestamp |-> now, weight |-> JNull,
                            flowRate |-> ParseMetric(Field(data, "current_flow_rate"))]
                    /\ weightHistoryRef[Len(weightHistoryRef)] =
                           [timestamp |-> now, flowRate |-> JNull,
                            weight |-> ParseMetric(Field(data, "current_weight"))]
               ELSE brewInProgress = data

\* two active snapshots were published: the arrays of the first still hold
\* one sample while the buffers hold two
C34_Witness ==
    /\ Len(heap.published) = 2
    /\ Len(heap.arrays[heap.published[1].flow]) = 1
    /\ Len(flowRateHistoryRef) = 2
    /\ last.op = "onmessage"


\* ------------------------------------------------------------------ C35
\* C35: in useConnectionStatus, whenever the held EventSource is not open
\* (none held, connecting, or closed), the connection state is reconnecting
\* or disconnected, never connected.
C35_NotOpenNotConnected ==
    (eventSourceRef = 0 \/ eventSources[eventSourceRef] # "OPEN") =>
        connectionState \in {"reconnecting", "disconnected"}


\* ------------------------------------------------------------------ C36
\* C36: in useConnectionStatus a message that is not JSON leaves the held
\* status and the connection state unchanged; no message changes the
\* connection state; and stopPolling() leaves the status absent, the state
\* disconnected and no EventSource held.
C36_HealthMessagesAndStop ==
    /\ [][healthLast'.op = "onmessage" =>
              /\ connectionState' = connectionState
              /\ ~healthLast'.msg.json => connectionStatus' = connectionStatus]_vars
    /\ [](healthLast.op = "stopPolling" =>
              /\ connectionStatus = JNull
              /\ connectionState = "disconnected"
              /\ eventSourceRef = 0)

\* a message that is not JSON arrived while a status was held
C36_Witness ==
    /\ healthLast.op = "onmessage"
    /\ ~healthLast.msg.json
    /\ connectionStatus # JNull
    /\ connectionState = "connected"

====
